---- MODULE Spec2Model ----
(***************************************************************************)
(* Model of the Sendgrid event proxy (src/index.js): the Lambda handler    *)
(* `main`, the authenticator, the event marshalling functions and the      *)
(* concurrent fan-out of the marshalled notifications to SQS.              *)
(*                                                                         *)
(* JavaScript values are tagged records [t, n, s].  A string is the        *)
(* sequence s of its atoms: single characters for status codes, whole      *)
(* tokens elsewhere ("bounce", ".filter").  split() cuts at an atom.       *)
(* A function call yields a completion: Return(v) or Throw(errorName).     *)
(***************************************************************************)
EXTENDS Integers, Sequences, FiniteSets, TLC

VARIABLES
    raw,          \* SpecNorm: the raw event handed to marshallEvent
    result,       \* SpecNorm: completions of the calls made so far
    hashTable,    \* createHash as a table: credential -> digest
    candidate,    \* SpecAuth: the credential authenticate() was called with
    authIdx,      \* SpecAuth: reduce() callbacks made so far
    authEqual,    \* SpecAuth: the reduce accumulator `equal`
    comparisons,  \* SpecAuth: evaluations of `char === authHash[index]`
    request,      \* Spec: the `data` argument of main
    pc,           \* Spec: position of main: start, await, done
    response,     \* Spec: what main returned
    calls,        \* Spec: the SQS_CLIENT.pushAsync calls made, in order
    settled       \* Spec: per call: pending, ok, failed

vars == <<raw, result, hashTable, candidate, authIdx, authEqual, comparisons,
          request, pc, response, calls, settled>>

normVars == <<raw, result>>
authVars == <<candidate, authIdx, authEqual, comparisons>>
mainVars == <<request, pc, response, calls, settled>>

----------------------------------------------------------------------------
(* Bounds *)

MaxStatusLen == 5        \* atoms in a status string
MaxBatch == 3            \* items in a request's batch
DigestLen == 3           \* characters in a digest (44 for base64 sha256)

----------------------------------------------------------------------------
(* JavaScript values *)

Undefined == [t |-> "undefined", n |-> 0, s |-> <<>>]
Num(k) == [t |-> "number", n |-> k, s |-> <<>>]
Str(q) == [t |-> "string", n |-> 0, s |-> q]

\* ToBoolean, as applied by `!`, `!!`, `&&` and `||`; an object (a record
\* without the tag t) is truthy
Truthy(v) ==
    IF "t" \notin DOMAIN v THEN TRUE
    ELSE CASE v.t = "undefined" -> FALSE
           [] v.t = "number" -> v.n # 0
           [] v.t = "string" -> v.s # <<>>

Return(v) == [kind |-> "return", value |-> v]
Throw(e) == [kind |-> "throw", value |-> e]

Digits == {"0", "1", "2", "3", "4", "5", "6", "7", "8", "9"}

RECURSIVE DigitsValue(_)
DigitsValue(q) ==
    IF q = <<>> THEN 0
    ELSE 10 * DigitsValue(SubSeq(q, 1, Len(q) - 1))
         + (CHOOSE d \in 0..9 : ToString(d) = q[Len(q)])

\* ToNumber, as applied by `timestamp * 1000`: NaN is [nan |-> TRUE]
ToNumber(v) ==
    CASE v.t = "number" -> [nan |-> FALSE, n |-> v.n]
      [] v.t = "undefined" -> [nan |-> TRUE, n |-> 0]
      [] v.t = "string" ->
            IF \A i \in 1..Len(v.s) : v.s[i] \in Digits
            THEN [nan |-> FALSE, n |-> DigitsValue(v.s)]
            ELSE [nan |-> TRUE, n |-> 0]

\* String.prototype.split(sep), sep one atom: the segments between its occurrences
RECURSIVE SplitFrom(_, _, _, _)
SplitFrom(q, sep, i, cur) ==
    IF i > Len(q) THEN <<cur>>
    ELSE IF q[i] = sep THEN <<cur>> \o SplitFrom(q, sep, i + 1, <<>>)
    ELSE SplitFrom(q, sep, i + 1, Append(cur, q[i]))

split(q, sep) == SplitFrom(q, sep, 1, <<>>)

----------------------------------------------------------------------------
(* Event marshalling *)

EVENTS == [BOUNCE |-> Str(<<"bounce">>), DELIVERED |-> Str(<<"delivered">>),
           DROPPED |-> Str(<<"dropped">>), SPAM |-> Str(<<"spamreport">>)]

\* new Date(timestamp * 1000).toISOString(): RangeError on an invalid date.
\* Every number of the model is inside the Date range, so NaN alone is invalid.
mapTimestamp(timestamp) ==
    LET ms == ToNumber(timestamp)
    IN  IF ms.nan THEN Throw("RangeError")
        ELSE Return(Str(<<"ISO8601", ToString(ms.n * 1000)>>))

marshallMailObject(event, timestamp) ==
    IF event.sg_message_id.t # "string" THEN Throw("TypeError")
    ELSE Return([timestamp |-> timestamp,
                 messageId |-> Str(split(event.sg_message_id.s, ".filter")[1])])

\* faulty variant: case '2' without its `break` falls through to case '6'
mapStatusToBounceSubType_fallthrough(statusParts) ==
    CASE statusParts[2] = <<"1">> -> Str(<<"NoEmail">>)
      [] statusParts[2] = <<"2">> ->
            (CASE statusParts[3] = <<"2">> -> Str(<<"MailboxFull">>)
               [] statusParts[3] = <<"3">> -> Str(<<"MessageTooLarge">>)
               [] OTHER -> Str(<<"ContentRejected">>))
      [] statusParts[2] = <<"6">> -> Str(<<"ContentRejected">>)
      [] OTHER -> Undefined

mapStatusToBounceSubType(statusParts) ==
    CASE statusParts[2] = <<"1">> -> Str(<<"NoEmail">>)
      [] statusParts[2] = <<"2">> ->
            (CASE statusParts[3] = <<"2">> -> Str(<<"MailboxFull">>)
               [] statusParts[3] = <<"3">> -> Str(<<"MessageTooLarge">>)
               [] OTHER -> Undefined)
      [] statusParts[2] = <<"6">> -> Str(<<"ContentRejected">>)
      [] OTHER -> Undefined

Or(a, b) == IF Truthy(a) THEN a ELSE b

BounceRecord(event, timestamp, bounceType, bounceSubType) ==
    [notificationType |-> "Bounce",
     bounce |-> [bounceType |-> Or(bounceType, Str(<<"Transient">>)),
                 bounceSubType |-> Or(bounceSubType, Str(<<"General">>)),
                 bouncedRecipients |-> <<[emailAddress |-> event.email]>>,
                 timestamp |-> timestamp,
                 feedbackId |-> event.sg_event_id]]

marshallBounceEvent(event, timestamp) ==
    IF event.event = EVENTS.DROPPED
    THEN Return(BounceRecord(event, timestamp, Str(<<"Permanent">>), Str(<<"Suppressed">>)))
    ELSE IF ~Truthy(event.status)
    THEN Return(BounceRecord(event, timestamp, Undefined, Undefined))
    ELSE IF event.status.t # "string" THEN Throw("TypeError")
    ELSE LET statusParts == split(event.status.s, ".")
         IN  IF Len(statusParts) = 3
             THEN Return(BounceRecord(event, timestamp,
                      IF statusParts[1] = <<"5">> THEN Str(<<"Permanent">>) ELSE Undefined,
                      mapStatusToBounceSubType(statusParts)))
             ELSE Return(BounceRecord(event, timestamp, Undefined, Undefined))

marshallDeliveryEvent(event, timestamp) ==
    [notificationType |-> "Delivery",
     delivery |-> [timestamp |-> timestamp,
                   recipients |-> <<event.email>>,
                   smtpResponse |-> event.response]]

\* faulty variant: the sub-record keeps the key of the bounce it was copied from
marshallComplaintEvent_bounceKey(event, timestamp) ==
    [notificationType |-> "Complaint",
     bounce |-> [complainedRecipients |-> <<[emailAddress |-> event.email]>>,
                 timestamp |-> timestamp,
                 feedbackId |-> event.sg_event_id]]

marshallComplaintEvent(event, timestamp) ==
    [notificationType |-> "Complaint",
     complaint |-> [complainedRecipients |-> <<[emailAddress |-> event.email]>>,
                    timestamp |-> timestamp,
                    feedbackId |-> event.sg_event_id]]

\* Return(Undefined) is the bare `return` and the switch falling through
marshallEvent(event) ==
    IF event.isNull \/ ~Truthy(event.timestamp) \/ ~Truthy(event.sg_message_id)
       \/ ~Truthy(event.event)
    THEN Return(Undefined)
    ELSE LET timestamp == mapTimestamp(event.timestamp)
         IN  IF timestamp.kind = "throw" THEN timestamp
             ELSE LET mail == marshallMailObject(event, timestamp.value)
                  IN  IF mail.kind = "throw" THEN mail
                      ELSE IF event.event \in {EVENTS.BOUNCE, EVENTS.DROPPED}
                      THEN LET b == marshallBounceEvent(event, timestamp.value)
                           IN  IF b.kind = "throw" THEN b
                               ELSE Return([mail |-> mail.value] @@ b.value)
                      ELSE IF event.event = EVENTS.DELIVERED
                      THEN Return([mail |-> mail.value]
                                  @@ marshallDeliveryEvent(event, timestamp.value))
                      ELSE IF event.event = EVENTS.SPAM
                      THEN Return([mail |-> mail.value]
                                  @@ marshallComplaintEvent(event, timestamp.value))
                      ELSE Return(Undefined)

----------------------------------------------------------------------------
(* Raw events *)

StatusAtoms == {"1", "2", "3", "5", "6", "."}

RECURSIVE SeqsUpTo(_, _)
SeqsUpTo(S, n) ==
    IF n = 0 THEN {<<>>}
    ELSE LET shorter == SeqsUpTo(S, n - 1)
         IN  shorter \cup {Append(q, a) : q \in {r \in shorter : Len(r) = n - 1}, a \in S}

Timestamps == {Undefined, Num(0), Num(1609459), Str(<<"x">>), Str(<<"1", "2">>)}
MessageIds == {Undefined, Str(<<>>), Str(<<"14c5d75ce93">>),
               Str(<<"14c5d75ce93", ".filter", "0001">>), Num(7)}
EventTags == {Undefined, EVENTS.BOUNCE, EVENTS.DELIVERED, EVENTS.DROPPED, EVENTS.SPAM,
              Str(<<"open">>), Num(1)}
FewStatuses == {Undefined, Num(5), Str(<<"5", ".", "1", ".", "1">>), Str(<<"5", ".", "1">>)}
AllStatuses == {Str(q) : q \in SeqsUpTo(StatusAtoms, MaxStatusLen)}

RawEvent(ts, id, ev, st) ==
    [isNull |-> FALSE, timestamp |-> ts, sg_message_id |-> id, event |-> ev, status |-> st,
     email |-> Str(<<"user@example.com">>), response |-> Str(<<"250 OK">>),
     sg_event_id |-> Str(<<"evt">>)]

NullEvent ==
    [isNull |-> TRUE, timestamp |-> Undefined, sg_message_id |-> Undefined,
     event |-> Undefined, status |-> Undefined, email |-> Undefined,
     response |-> Undefined, sg_event_id |-> Undefined]

\* every combination of the required fields, and every status on a bounce
RawEvents ==
    {NullEvent}
    \cup {RawEvent(ts, id, ev, st) :
            ts \in Timestamps, id \in MessageIds, ev \in EventTags, st \in FewStatuses}
    \cup {RawEvent(Num(1609459), Str(<<"14c5d75ce93", ".filter", "0001">>), ev, st) :
            ev \in {EVENTS.BOUNCE, EVENTS.DROPPED}, st \in AllStatuses}

----------------------------------------------------------------------------
(* Idle values of the variables a specification does not use *)

NoRequest == [hasBody |-> FALSE, qsp |-> "null", auth |-> "", parses |-> TRUE,
              isArray |-> TRUE, items |-> <<>>]
NoResponse == [statusCode |-> 0, body |-> Str(<<>>), isBase64Encoded |-> FALSE]
Credentials == {"secret", "guess", "other"}
AUTH == "secret"
Alphabet == {"A", "B"}

\* a table without collisions: the digests differ from AUTH's at the first
\* position (guess) and at the last position alone (other)
IdleTable ==
    [c \in Credentials |->
        [i \in 1..DigestLen |->
            IF (c = "guess" /\ i = 1) \/ (c = "other" /\ i = DigestLen) THEN "B" ELSE "A"]]

NormIdle == raw = NullEvent /\ result = <<>>
AuthIdle == candidate = "" /\ authIdx = 0 /\ authEqual = TRUE /\ comparisons = 0
MainIdle == request = NoRequest /\ pc = "idle" /\ response = NoResponse
            /\ calls = <<>> /\ settled = <<>>

----------------------------------------------------------------------------
(* SpecNorm: marshallEvent applied to one raw event *)

InitNorm ==
    /\ raw \in RawEvents
    /\ result = <<>>
    /\ hashTable = IdleTable
    /\ AuthIdle
    /\ MainIdle

CallMarshallEvent ==
    /\ result = <<>>
    /\ result' = Append(result, marshallEvent(raw))
    /\ UNCHANGED <<raw, hashTable, authVars, mainVars>>

NextNorm == CallMarshallEvent

SpecNorm == InitNorm /\ [][NextNorm]_vars

----------------------------------------------------------------------------
(* Authentication *)

\* crypto: hash.update(value) throws a TypeError unless value is a string or
\* a buffer; the digest is a fixed-length string, here the table's entry
createHash(value) ==
    IF value.t = "string" THEN Return(hashTable[value.s[1]]) ELSE Throw("TypeError")

AUTH_HASH == createHash(Str(<<AUTH>>)).value

\* the right operand of `equal && char === authHash[index]`;
\* authHash[index] past the end of authHash is undefined, equal to no character
charEquals(char, authHash, index) ==
    index \in DOMAIN authHash /\ char = authHash[index]

\* the reduce callback: `&&` evaluates its right operand only when equal is true
reduceCallback(equal, char, authHash, index) ==
    [equal |-> equal /\ charEquals(char, authHash, index),
     compared |-> IF equal THEN 1 ELSE 0]

RECURSIVE reduce(_, _, _)
reduce(authHash, index, equal) ==
    IF index > Len(AUTH_HASH) THEN equal
    ELSE reduce(authHash, index + 1,
                reduceCallback(equal, AUTH_HASH[index], authHash, index).equal)

authenticate(auth) ==
    LET authHash == createHash(auth)
    IN  IF authHash.kind = "throw" THEN authHash
        ELSE Return(reduce(authHash.value, 1, TRUE))

(* SpecAuth: one call of authenticate, one reduce callback per step *)

InitAuth ==
    /\ hashTable \in [Credentials -> [1..DigestLen -> Alphabet]]
    /\ candidate \in Credentials
    /\ authIdx = 0
    /\ authEqual = TRUE
    /\ comparisons = 0
    /\ NormIdle
    /\ MainIdle

ReduceStep ==
    /\ authIdx < Len(AUTH_HASH)
    /\ LET step == reduceCallback(authEqual, AUTH_HASH[authIdx + 1],
                                  createHash(Str(<<candidate>>)).value, authIdx + 1)
       IN  /\ authEqual' = step.equal
           /\ comparisons' = comparisons + step.compared
    /\ authIdx' = authIdx + 1
    /\ UNCHANGED <<candidate, hashTable, normVars, mainVars>>

NextAuth == ReduceStep

SpecAuth == InitAuth /\ [][NextAuth]_vars

----------------------------------------------------------------------------
(* Dispatch *)

QUEUES == [Bounce |-> "fxa-email-bounce-SQS_SUFFIX",
           Complaint |-> "fxa-email-complaint-SQS_SUFFIX",
           Delivery |-> "fxa-email-delivery-SQS_SUFFIX"]

\* faulty variant: every notification goes to the bounce queue
sendEvent_bounceQueue(event) == [queue |-> QUEUES.Bounce, message |-> event]

\* the arguments of SQS_CLIENT.pushAsync; the promise it returns settles later
sendEvent(event) == [queue |-> QUEUES[event.notificationType], message |-> event]

RECURSIVE filter(_)
filter(marshalled) ==
    IF marshalled = <<>> THEN <<>>
    ELSE IF Truthy(Head(marshalled).value) THEN <<Head(marshalled).value>> \o filter(Tail(marshalled))
    ELSE filter(Tail(marshalled))

\* faulty variant: each item is marshalled and sent in turn, so the items before the
\* one that throws have been published
processEvents_interleaved(events) ==
    LET marshalled == [i \in 1..Len(events) |-> marshallEvent(events[i])]
        thrown == {i \in 1..Len(events) : marshalled[i].kind = "throw"}
        first == CHOOSE i \in thrown : \A j \in thrown : i <= j
        done == IF thrown = {} THEN marshalled ELSE SubSeq(marshalled, 1, first - 1)
        survivors == filter(done)
    IN  [kind |-> IF thrown = {} THEN "pending" ELSE "throw",
         calls |-> [i \in 1..Len(survivors) |-> [queue |-> QUEUES[survivors[i].notificationType],
                                                 message |-> survivors[i]]]]

\* faulty variant: each publish is awaited before the next one is issued, so only the
\* first is in flight when main suspends
processEvents_sequential(events) ==
    LET marshalled == [i \in 1..Len(events) |-> marshallEvent(events[i])]
        thrown == {i \in 1..Len(events) : marshalled[i].kind = "throw"}
        survivors == filter(marshalled)
    IN  IF thrown # {}
        THEN [kind |-> "throw", calls |-> <<>>]
        ELSE [kind |-> "pending",
              calls |-> [i \in 1..(IF survivors = <<>> THEN 0 ELSE 1) |->
                            [queue |-> QUEUES[survivors[i].notificationType],
                             message |-> survivors[i]]]]

\* events.map(marshallEvent) runs over the whole batch first; an exception in it
\* leaves processEvents before .filter and .map(sendEvent) run
processEvents(events) ==
    LET marshalled == [i \in 1..Len(events) |-> marshallEvent(events[i])]
        thrown == {i \in 1..Len(events) : marshalled[i].kind = "throw"}
    IN  IF thrown # {}
        THEN [kind |-> "throw", calls |-> <<>>]
        ELSE LET survivors == filter(marshalled)
             IN  [kind |-> "pending",
                  calls |-> [i \in 1..Len(survivors) |-> sendEvent(survivors[i])]]

\* faulty variant: resolved as soon as one publish is (Promise.any)
promiseAll_any(promises) ==
    IF promises = <<>> \/ \E i \in 1..Len(promises) : promises[i] = "ok" THEN "resolved"
    ELSE IF \A i \in 1..Len(promises) : promises[i] = "failed" THEN "rejected"
    ELSE "pending"

\* Promise.all over the publishes: rejected as soon as one is, resolved when all are
promiseAll(promises) ==
    IF \E i \in 1..Len(promises) : promises[i] = "failed" THEN "rejected"
    ELSE IF \A i \in 1..Len(promises) : promises[i] = "ok" THEN "resolved"
    ELSE "pending"

Response(statusCode, body) ==
    [statusCode |-> statusCode, body |-> body, isBase64Encoded |-> FALSE]

Unauthorized == Response(401, Str(<<"Unauthorized">>))
InternalServerError == Response(500, Str(<<"Internal Server Error">>))
Processed(results) == Response(200, Str(<<"Processed", ToString(Len(results)), "events">>))

\* data.queryStringParameters.auth
authParam(data) == IF data.qsp = "auth" THEN Str(<<data.auth>>) ELSE Undefined

\* main up to its await: the authentication gate, JSON.parse, the batch coercion
\* and the synchronous part of processEvents
main(data) ==
    LET auth == authenticate(authParam(data))
        sent == processEvents(data.items)
    IN  IF data.hasBody /\ data.qsp = "null"
        THEN [pc |-> "done", response |-> Unauthorized, calls |-> <<>>]
        ELSE IF data.hasBody /\ auth.kind = "throw"
        THEN [pc |-> "done", response |-> InternalServerError, calls |-> <<>>]
        ELSE IF data.hasBody /\ ~auth.value
        THEN [pc |-> "done", response |-> Unauthorized, calls |-> <<>>]
        ELSE IF data.hasBody /\ ~data.parses
        THEN [pc |-> "done", response |-> InternalServerError, calls |-> <<>>]
        ELSE IF sent.kind = "throw"
        THEN [pc |-> "done", response |-> InternalServerError, calls |-> sent.calls]
        ELSE [pc |-> "await", response |-> NoResponse, calls |-> sent.calls]

----------------------------------------------------------------------------
(* Requests *)

ValidId == Str(<<"14c5d75ce93", ".filter", "0001">>)
ValidTs == Num(1609459)
NoStatus == Undefined

BatchItems ==
    {RawEvent(ValidTs, ValidId, EVENTS.BOUNCE, Str(<<"5", ".", "1", ".", "1">>)),
     RawEvent(ValidTs, ValidId, EVENTS.DELIVERED, NoStatus),
     RawEvent(ValidTs, ValidId, EVENTS.SPAM, NoStatus),
     RawEvent(ValidTs, ValidId, Undefined, NoStatus),
     RawEvent(ValidTs, ValidId, Str(<<"open">>), NoStatus),
     RawEvent(Str(<<"x">>), ValidId, EVENTS.DELIVERED, NoStatus),
     RawEvent(ValidTs, Num(7), Str(<<"open">>), NoStatus),
     NullEvent}

\* the parsed payload: an array of at most MaxBatch items, or one object
\* (main(null) and main(undefined) are not among the direct invocations)
Payloads ==
    {[isArray |-> TRUE, items |-> q] : q \in SeqsUpTo(BatchItems, MaxBatch)}
    \cup {[isArray |-> FALSE, items |-> <<e>>] : e \in BatchItems \ {NullEvent}}
    \cup {[isArray |-> FALSE, items |-> <<NullEvent>>]}

Gates ==
    {[qsp |-> "null", auth |-> ""], [qsp |-> "noauth", auth |-> ""]}
    \cup {[qsp |-> "auth", auth |-> c] : c \in Credentials}

Requests ==
    {[hasBody |-> FALSE, qsp |-> "null", auth |-> "", parses |-> TRUE,
      isArray |-> p.isArray, items |-> p.items] : p \in Payloads \ {[isArray |-> FALSE, items |-> <<NullEvent>>]}}
    \cup {[hasBody |-> TRUE, qsp |-> g.qsp, auth |-> g.auth, parses |-> TRUE,
           isArray |-> p.isArray, items |-> p.items] : g \in Gates, p \in Payloads}
    \cup {[hasBody |-> TRUE, qsp |-> g.qsp, auth |-> g.auth, parses |-> FALSE,
           isArray |-> FALSE, items |-> <<>>] : g \in Gates}

----------------------------------------------------------------------------
(* Spec: one request through main, and the publishes it started *)

Init ==
    /\ request \in Requests
    /\ pc = "start"
    /\ response = NoResponse
    /\ calls = <<>>
    /\ settled = <<>>
    /\ hashTable = IdleTable
    /\ NormIdle
    /\ AuthIdle

Main ==
    /\ pc = "start"
    /\ LET m == main(request)
       IN  /\ pc' = m.pc
           /\ response' = m.response
           /\ calls' = m.calls
           /\ settled' = [i \in 1..Len(m.calls) |-> "pending"]
    /\ UNCHANGED <<request, hashTable, normVars, authVars>>

PushSucceeds ==
    \E i \in 1..Len(settled) :
        /\ settled[i] = "pending"
        /\ settled' = [settled EXCEPT ![i] = "ok"]
        /\ UNCHANGED <<request, pc, response, calls, hashTable, normVars, authVars>>

PushFails ==
    \E i \in 1..Len(settled) :
        /\ settled[i] = "pending"
        /\ settled' = [settled EXCEPT ![i] = "failed"]
        /\ UNCHANGED <<request, pc, response, calls, hashTable, normVars, authVars>>

AwaitResolves ==
    /\ pc = "await"
    /\ promiseAll(settled) = "resolved"
    /\ response' = Processed(settled)
    /\ pc' = "done"
    /\ UNCHANGED <<request, calls, settled, hashTable, normVars, authVars>>

AwaitRejects ==
    /\ pc = "await"
    /\ promiseAll(settled) = "rejected"
    /\ response' = InternalServerError
    /\ pc' = "done"
    /\ UNCHANGED <<request, calls, settled, hashTable, normVars, authVars>>

Next == Main \/ PushSucceeds \/ PushFails \/ AwaitResolves \/ AwaitRejects

Spec == Init /\ [][Next]_vars

----------------------------------------------------------------------------
(* Properties of marshallEvent, under SpecNorm *)

Recognized == {Str(<<"bounce">>), Str(<<"dropped">>), Str(<<"delivered">>), Str(<<"spamreport">>)}

Marshalled == result # <<>>
Produced == Marshalled /\ result[1].kind = "return" /\ result[1].value # Undefined

\* a required field is missing, a timestamp is not numeric, an sg_message_id
\* is not a string, or the event is unknown
Malformed(e) ==
    \/ e.isNull
    \/ ToNumber(e.timestamp).nan
    \/ e.sg_message_id.t # "string"
    \/ e.event \notin Recognized

\* C3: a malformed or unrecognized item makes normalize yield absent and
\* raise nothing
C3_MalformedYieldsAbsent ==
    (Marshalled /\ Malformed(raw)) => result[1] = Return(Undefined)

SubRecordOf(notificationType) ==
    CASE notificationType = "Bounce" -> "bounce"
      [] notificationType = "Delivery" -> "delivery"
      [] notificationType = "Complaint" -> "complaint"
      [] OTHER -> "none"

TypeOfEvent(ev) ==
    CASE ev \in {Str(<<"bounce">>), Str(<<"dropped">>)} -> "Bounce"
      [] ev = Str(<<"delivered">>) -> "Delivery"
      [] ev = Str(<<"spamreport">>) -> "Complaint"
      [] OTHER -> "none"

\* C7: every notification normalize produces carries mail and exactly one of
\* bounce, delivery, complaint: the one of its notificationType, which is the
\* one of the raw event
C7_OneSubRecord ==
    Produced =>
        LET n == result[1].value
        IN  /\ "notificationType" \in DOMAIN n
            /\ n.notificationType = TypeOfEvent(raw.event)
            /\ DOMAIN n = {"mail", "notificationType", SubRecordOf(n.notificationType)}
            /\ DOMAIN n \cap {"bounce", "delivery", "complaint"}
                 = {SubRecordOf(n.notificationType)}
            /\ DOMAIN n.mail = {"timestamp", "messageId"}
            /\ n[SubRecordOf(n.notificationType)].timestamp = n.mail.timestamp

C7_Witness ==
    /\ Produced
    /\ raw.event = Str(<<"spamreport">>)
    /\ "complaint" \in DOMAIN result[1].value

\* the reference table of the bounce classification, read off the status
\* string by the positions of its dots
RefBounce(e) ==
    LET st == e.status.s
        dots == {i \in 1..Len(st) : st[i] = "."}
    IN  IF e.event = Str(<<"dropped">>) THEN <<"Permanent", "Suppressed">>
        ELSE IF e.status.t # "string" \/ Cardinality(dots) # 2 THEN <<"Transient", "General">>
        ELSE LET i == CHOOSE d \in dots : \A o \in dots : d <= o
                 j == CHOOSE d \in dots : \A o \in dots : d >= o
                 class == SubSeq(st, 1, i - 1)
                 subject == SubSeq(st, i + 1, j - 1)
                 detail == SubSeq(st, j + 1, Len(st))
             IN  <<IF class = <<"5">> THEN "Permanent" ELSE "Transient",
                   CASE subject = <<"1">> -> "NoEmail"
                     [] subject = <<"2">> /\ detail = <<"2">> -> "MailboxFull"
                     [] subject = <<"2">> /\ detail = <<"3">> -> "MessageTooLarge"
                     [] subject = <<"6">> -> "ContentRejected"
                     [] OTHER -> "General">>

\* a bounce or dropped event whose fields have their documented types
WellTypedBounce(e) ==
    /\ ~e.isNull
    /\ e.event \in {Str(<<"bounce">>), Str(<<"dropped">>)}
    /\ e.timestamp.t = "number" /\ e.timestamp.n # 0
    /\ e.sg_message_id.t = "string" /\ e.sg_message_id.s # <<>>
    /\ (e.status.t \in {"string", "undefined"} \/ e.event = Str(<<"dropped">>))

\* C9: every bounce or dropped event is classified as the reference table says:
\* every well-typed one yields a notification, and every notification yielded
\* carries the table's (bounceType, bounceSubType)
C9_BounceTable ==
    /\ (Marshalled /\ WellTypedBounce(raw)) => Produced
    /\ (Produced /\ raw.event \in {Str(<<"bounce">>), Str(<<"dropped">>)}) =>
          LET b == result[1].value.bounce
          IN  <<b.bounceType, b.bounceSubType>>
                = <<Str(<<RefBounce(raw)[1]>>), Str(<<RefBounce(raw)[2]>>)>>

C9_Witness ==
    /\ Produced
    /\ raw.event = Str(<<"bounce">>)
    /\ raw.status = Str(<<"2", ".", "2", ".", "3">>)
    /\ result[1].value.bounce.bounceType = Str(<<"Transient">>)
    /\ result[1].value.bounce.bounceSubType = Str(<<"MessageTooLarge">>)

----------------------------------------------------------------------------
(* Properties of authenticate, under SpecAuth *)

\* C5: authenticate(c) is true iff the digests are equal, and the character
\* comparison is performed at every position of the expected digest
C5_EveryPositionCompared ==
    authIdx = DigestLen =>
        /\ authEqual <=> (hashTable[candidate] = hashTable[AUTH])
        /\ comparisons = DigestLen

----------------------------------------------------------------------------
(* Properties of main, under Spec *)

Authenticated(r) == r.qsp = "auth" /\ hashTable[r.auth] = hashTable[AUTH]

\* the request passes the gate and yields a batch
Accepted(r) == ~r.hasBody \/ (Authenticated(r) /\ r.parses)

ValidItem(e) ==
    /\ ~e.isNull
    /\ Truthy(e.timestamp) /\ Truthy(e.sg_message_id) /\ Truthy(e.event)
    /\ e.event \in Recognized

CountValid(items) == Cardinality({i \in 1..Len(items) : ValidItem(items[i])})

Raises(e) == marshallEvent(e).kind = "throw"

RECURSIVE NotificationsOf(_)
NotificationsOf(items) ==
    IF items = <<>> THEN <<>>
    ELSE LET c == marshallEvent(Head(items))
         IN  (IF c.kind = "return" /\ c.value # Undefined THEN <<c.value>> ELSE <<>>)
             \o NotificationsOf(Tail(items))

Messages == [i \in 1..Len(calls) |-> calls[i].message]

AllOk == \A i \in 1..Len(settled) : settled[i] = "ok"
SomeFailed == \E i \in 1..Len(settled) : settled[i] = "failed"

\* C1: a request with a body whose auth parameter is absent or does not
\* authenticate is answered 401 and publishes nothing
C1_UnauthenticatedIs401 ==
    (pc # "start" /\ request.hasBody /\ ~Authenticated(request)) =>
        (response.statusCode = 401 /\ calls = <<>>)

\* C2: an accepted batch makes as many publish calls as it has valid items,
\* and when they all succeed the response is 200 and reports that count
C2_PublishesEqualValidItems ==
    (pc # "start" /\ Accepted(request)) =>
        /\ Len(calls) = CountValid(request.items)
        /\ (pc = "done" /\ AllOk) =>
              response = Response(200, Str(<<"Processed",
                                             ToString(CountValid(request.items)), "events">>))

C4_State ==
    SomeFailed =>
        /\ response.statusCode # 200
        /\ pc = "done" => response.statusCode = 500
        /\ Messages = NotificationsOf(request.items)

C4_Step ==
    \A i \in 1..Len(settled) :
        settled[i] # "pending" =>
            (calls' = calls /\ Len(settled') = Len(settled) /\ settled'[i] = settled[i])

\* C4: once a publish has failed the response is never 200 and is 500 when
\* main returns, the publish of every notification of the batch has been
\* issued, and a settled publish stays as it settled
C4_FailureSurfaced == [](C4_State) /\ [][C4_Step]_vars

C4_Witness ==
    /\ pc = "done"
    /\ response.statusCode = 500
    /\ \E i, j \in 1..Len(settled) : settled[i] = "failed" /\ settled[j] = "ok"

RefQueue(notificationType) ==
    CASE notificationType = "Bounce" -> "fxa-email-bounce-SQS_SUFFIX"
      [] notificationType = "Complaint" -> "fxa-email-complaint-SQS_SUFFIX"
      [] notificationType = "Delivery" -> "fxa-email-delivery-SQS_SUFFIX"

C6_State ==
    pc # "start" =>
        /\ Len(settled) = Len(calls)
        /\ IF Accepted(request) /\ \A i \in 1..Len(request.items) : ~Raises(request.items[i])
           THEN Messages = NotificationsOf(request.items)
           ELSE calls = <<>>
        /\ \A i \in 1..Len(calls) :
              calls[i].queue = RefQueue(calls[i].message.notificationType)

C6_Step == pc # "start" => calls' = calls

\* C6: the publish calls of a dispatched batch are its notifications, one call
\* each, every call names the queue of its notificationType, and no call is
\* added once the publishes are issued, whatever their outcome
C6_PublishedOnce == [](C6_State) /\ [][C6_Step]_vars

C6_Witness ==
    /\ pc = "done"
    /\ Len(calls) >= 2
    /\ calls[1].queue = "fxa-email-complaint-SQS_SUFFIX"
    /\ calls[2].queue = "fxa-email-delivery-SQS_SUFFIX"
    /\ settled[1] = "failed" /\ settled[2] = "ok"

\* C8: a 200 response exists only when main is done and every publish of the
\* request has settled successfully
C8_OkAfterAllSettled ==
    response.statusCode = 200 =>
        /\ pc = "done"
        /\ Len(settled) = Len(calls)
        /\ \A i \in 1..Len(calls) : settled[i] = "ok"

C8_Witness ==
    /\ response.statusCode = 200
    /\ Len(calls) >= 2

FailsBeforeDispatch(r) ==
    \/ r.hasBody /\ Authenticated(r) /\ ~r.parses
    \/ Accepted(r) /\ \E i \in 1..Len(r.items) : Raises(r.items[i])

\* C10: when the body does not parse or the normalization of an item raises,
\* main returns 500 and no publish call has been made, whatever precedes the
\* failing item
C10_NoPublishBeforeFailure ==
    (pc # "start" /\ FailsBeforeDispatch(request)) =>
        /\ pc = "done"
        /\ response = InternalServerError
        /\ calls = <<>>

C10_Witness ==
    /\ pc = "done"
    /\ Accepted(request)
    /\ Len(request.items) >= 2
    /\ ValidItem(request.items[1]) /\ ~Raises(request.items[1])
    /\ Raises(request.items[2])
    /\ response.statusCode = 500
    /\ calls = <<>>

====
